---- MODULE Spec2Model ----
(***************************************************************************)
(* Model of src/app.py (credit decision application): the helpers          *)
(* (add_months, parse_fcfa, calc_endettement_simplifie), the three rule    *)
(* groups (eval_step1_alerts, eval_step2_alerts, eval_step3_alerts), the   *)
(* aggregator (final_decision_text) and the session state machine of       *)
(* run_streamlit_app (step, form_data, alerts_red, alerts_orange,          *)
(* historique, show_history).                                              *)
(***************************************************************************)
EXTENDS Integers, Sequences, FiniteSets, TLC

VARIABLES step, form_data, alerts_red, alerts_orange, historique, show_history,
          call, ret

vars == <<step, form_data, alerts_red, alerts_orange, historique, show_history,
          call, ret>>

session_vars == <<step, form_data, alerts_red, alerts_orange, historique, show_history>>

(***************************************************************************)
(* Python float: IEEE-754 binary64, round to nearest, ties to even.        *)
(* A float is [sgn, man, exp]: value (-1)^sgn * man * 2^exp where man is a *)
(* sequence of MantBits bits, most significant first, whose first bit is 1 *)
(* unless the value is zero (all bits 0, exp 0, sgn 0).  The exponent      *)
(* range is not modelled: the values of the model stay far from overflow   *)
(* and from subnormals.                                                    *)
(***************************************************************************)
MantBits == 53

Zeros(n) == [i \in 1..n |-> 0]

\* number of binary digits of a natural number n < 2^30
BitLen(n) == CHOOSE L \in 0..30 : n < 2^L /\ (L = 0 \/ n >= 2^(L - 1))

\* binary digits of a natural number, most significant first (<<>> for 0)
NatBits(n) == [k \in 1..BitLen(n) |-> (n \div 2^(BitLen(n) - k)) % 2]

\* a bit sequence without its leading zeros
StripZeros(b) ==
    IF \A i \in 1..Len(b) : b[i] = 0 THEN <<>>
    ELSE LET k == CHOOSE i \in 1..Len(b) : b[i] = 1 /\ \A j \in 1..(i - 1) : b[j] = 0
         IN SubSeq(b, k, Len(b))

PadLeft(b, n) == Zeros(n - Len(b)) \o b

\* Bit sequences are added, subtracted and divided LimbBits bits at a time.
LimbBits == 10
LimbBase == 1024

\* the limbs (base LimbBase, most significant first) of a bit sequence
ToLimbs(b) ==
    LET n == (Len(b) + LimbBits - 1) \div LimbBits
        p == PadLeft(b, n * LimbBits)
    IN [i \in 1..n |->
          LET o == (i - 1) * LimbBits
          IN p[o + 1] * 512 + p[o + 2] * 256 + p[o + 3] * 128 + p[o + 4] * 64
             + p[o + 5] * 32 + p[o + 6] * 16 + p[o + 7] * 8 + p[o + 8] * 4
             + p[o + 9] * 2 + p[o + 10]]

\* the bit sequence of a sequence of limbs
FromLimbs(L) ==
    [k \in 1..(LimbBits * Len(L)) |->
        (L[((k - 1) \div LimbBits) + 1] \div 2^(LimbBits - 1 - ((k - 1) % LimbBits))) % 2]

RECURSIVE AddFrom(_, _, _, _, _)
AddFrom(X, Y, i, carry, acc) ==
    IF i = 0 THEN <<carry>> \o acc
    ELSE LET s == X[i] + Y[i] + carry
         IN AddFrom(X, Y, i - 1, s \div LimbBase, <<s % LimbBase>> \o acc)

\* sum of two bit sequences
BitsAdd(X, Y) ==
    LET n == IF Len(X) > Len(Y) THEN Len(X) ELSE Len(Y)
        A == ToLimbs(PadLeft(X, n))
        B == ToLimbs(PadLeft(Y, n))
    IN StripZeros(FromLimbs(AddFrom(A, B, Len(A), 0, <<>>)))

RECURSIVE SubFrom(_, _, _, _, _)
SubFrom(X, Y, i, borrow, acc) ==
    IF i = 0 THEN acc
    ELSE LET s == X[i] - Y[i] - borrow
         IN IF s < 0 THEN SubFrom(X, Y, i - 1, 1, <<s + LimbBase>> \o acc)
            ELSE SubFrom(X, Y, i - 1, 0, <<s>> \o acc)

\* difference X - Y of two bit sequences, X >= Y
BitsSub(X, Y) ==
    LET n == IF Len(X) > Len(Y) THEN Len(X) ELSE Len(Y)
        A == ToLimbs(PadLeft(X, n))
        B == ToLimbs(PadLeft(Y, n))
    IN StripZeros(FromLimbs(SubFrom(A, B, Len(A), 0, <<>>)))

\* X < Y for bit sequences of the same length
LexLess(X, Y) ==
    \E i \in 1..Len(X) : X[i] < Y[i] /\ \A j \in 1..(i - 1) : X[j] = Y[j]

\* X < Y for bit sequences without leading zeros
BitsLess(X, Y) ==
    IF Len(X) # Len(Y) THEN Len(X) < Len(Y) ELSE LexLess(X, Y)

RECURSIVE DivFrom(_, _, _, _, _)
DivFrom(X, r, i, rem, acc) ==
    IF i > Len(X) THEN [quo |-> acc, rem |-> rem]
    ELSE LET cur == LimbBase * rem + X[i]
         IN DivFrom(X, r, i + 1, cur % r, Append(acc, cur \div r))

\* long division of a bit sequence by a positive integer r < 2^20
BitsDiv(X, r) ==
    LET d == DivFrom(ToLimbs(X), r, 1, 0, <<>>)
    IN [quo |-> StripZeros(FromLimbs(d.quo)), rem |-> d.rem]

FZero == [sgn |-> 0, man |-> Zeros(MantBits), exp |-> 0]

\* the float nearest to (-1)^sgn * (bits + fraction) * 2^e, where sticky says
\* that a non-zero fraction below the last bit was dropped
RoundBits(sgn, bits0, e, sticky) ==
    LET bits == StripZeros(bits0)
        n == Len(bits)
    IN IF n = 0 THEN FZero
       ELSE IF n <= MantBits
       THEN [sgn |-> sgn, man |-> bits \o Zeros(MantBits - n), exp |-> e - (MantBits - n)]
       ELSE LET kept == SubSeq(bits, 1, MantBits)
                guard == bits[MantBits + 1]
                rest == \E i \in (MantBits + 2)..n : bits[i] = 1
                up == guard = 1 /\ (rest \/ sticky \/ kept[MantBits] = 1)
                inc == IF up THEN BitsAdd(kept, <<1>>) ELSE kept
                e1 == e + (n - MantBits)
            IN IF Len(inc) > MantBits
               THEN [sgn |-> sgn, man |-> SubSeq(inc, 1, MantBits), exp |-> e1 + 1]
               ELSE [sgn |-> sgn, man |-> inc, exp |-> e1]

Abs(n) == IF n < 0 THEN -n ELSE n

\* float(n) for an int n
FloatOfInt(n) == RoundBits(IF n < 0 THEN 1 ELSE 0, NatBits(Abs(n)), 0, FALSE)

FIsZero(x) == x.man[1] = 0

\* x / float(n) for a float x and an int n # 0
FDivInt(x, n) ==
    IF FIsZero(x) THEN FZero
    ELSE LET r == Abs(n)
             extra == Len(NatBits(r)) + 3
             d == BitsDiv(x.man \o Zeros(extra), r)
             s == IF (x.sgn = 1) # (n < 0) THEN 1 ELSE 0
         IN RoundBits(s, d.quo, x.exp - extra, d.rem # 0)

\* x + y
FAdd(x, y) ==
    IF FIsZero(x) THEN y
    ELSE IF FIsZero(y) THEN x
    ELSE LET e == IF x.exp < y.exp THEN x.exp ELSE y.exp
             X == x.man \o Zeros(x.exp - e)
             Y == y.man \o Zeros(y.exp - e)
         IN IF x.sgn = y.sgn THEN RoundBits(x.sgn, BitsAdd(X, Y), e, FALSE)
            ELSE IF BitsLess(X, Y) THEN RoundBits(y.sgn, BitsSub(Y, X), e, FALSE)
            ELSE IF X = Y THEN FZero
            ELSE RoundBits(x.sgn, BitsSub(X, Y), e, FALSE)

\* magnitude comparison of two non-zero floats
MagLess(x, y) ==
    IF x.exp # y.exp THEN x.exp < y.exp ELSE LexLess(x.man, y.man)

\* x < y
FLess(x, y) ==
    IF FIsZero(x) THEN (~FIsZero(y) /\ y.sgn = 0)
    ELSE IF FIsZero(y) THEN x.sgn = 1
    ELSE IF x.sgn # y.sgn THEN x.sgn = 1
    ELSE IF x.sgn = 0 THEN MagLess(x, y)
    ELSE MagLess(y, x)

\* x > y
FGreater(x, y) == FLess(y, x)

Third == FDivInt(FloatOfInt(1), 3)        \* the literal 1/3
Quarter == FDivInt(FloatOfInt(1), 4)      \* the literal 0.25

(***************************************************************************)
(* Values.  A dict is a function from its keys; an absent key is not in    *)
(* its DOMAIN.  A date-valued field holds NoneV or a date [t, y, m, d].    *)
(* A text typed by the user is a sequence of one-character strings.        *)
(* A profile field read as a date holds NoneV, a date [t, y, m, d], a      *)
(* datetime [t, y, m, d, h], a str [t, s] or another object [t, v].        *)
(***************************************************************************)
NoneV == [t |-> "None"]

\* datetime.datetime(y, m, d, h)
MkDateTime(y, m, d, h) == [t |-> "datetime", y |-> y, m |-> m, d |-> d, h |-> h]

\* a str object holding the text s
Str(s) == [t |-> "str", s |-> s]

\* an int object
IntObj(v) == [t |-> "int", v |-> v]

MkDate(y, m, d) == [t |-> "date", y |-> y, m |-> m, d |-> d]

IsDate(v) == v.t = "date"

\* dict.get(key, default)
Get(data, key, default) == IF key \in DOMAIN data THEN data[key] ELSE default

\* dict.update(u)
Update(data, u) ==
    [k \in DOMAIN data \cup DOMAIN u |-> IF k \in DOMAIN u THEN u[k] ELSE data[k]]

Range(seq) == {seq[i] : i \in 1..Len(seq)}

\* a < b for two dates
DateLess(a, b) ==
    \/ a.y < b.y
    \/ a.y = b.y /\ a.m < b.m
    \/ a.y = b.y /\ a.m = b.m /\ a.d < b.d

IsLeap(y) == y % 4 = 0 /\ (y % 100 # 0 \/ y % 400 = 0)

\* calendar.monthrange(year, month)[1]
DaysInMonth(y, m) ==
    IF m = 2 THEN (IF IsLeap(y) THEN 29 ELSE 28)
    ELSE IF m \in {4, 6, 9, 11} THEN 30 ELSE 31

Min(a, b) == IF a < b THEN a ELSE b

\* date + datetime.timedelta(days=n), for 0 <= n <= 28
PlusDays(date, n) ==
    LET dim == DaysInMonth(date.y, date.m)
    IN IF date.d + n <= dim THEN MkDate(date.y, date.m, date.d + n)
       ELSE IF date.m = 12 THEN MkDate(date.y + 1, 1, date.d + n - dim)
       ELSE MkDate(date.y, date.m + 1, date.d + n - dim)


\* add_months without the min of line 56
add_months_same_day(sourcedate, months) ==
    IF months <= 0 THEN sourcedate
    ELSE LET month0 == sourcedate.m - 1 + months
             year == sourcedate.y + (month0 \div 12)
             month == (month0 % 12) + 1
         IN MkDate(year, month, sourcedate.d)

add_months(sourcedate, months) ==
    IF months <= 0 THEN sourcedate
    ELSE LET month0 == sourcedate.m - 1 + months
             year == sourcedate.y + (month0 \div 12)
             month == (month0 % 12) + 1
             day == Min(sourcedate.d, DaysInMonth(year, month))
         IN MkDate(year, month, day)

Digits == {"0", "1", "2", "3", "4", "5", "6", "7", "8", "9"}

DigitVal(c) ==
    CASE c = "0" -> 0 [] c = "1" -> 1 [] c = "2" -> 2 [] c = "3" -> 3 [] c = "4" -> 4
      [] c = "5" -> 5 [] c = "6" -> 6 [] c = "7" -> 7 [] c = "8" -> 8 [] c = "9" -> 9

\* re.sub(r"[^0-9]", "", s)
OnlyDigits(s) == SelectSeq(s, LAMBDA c : c \in Digits)

RECURSIVE IntOfDigits(_)
\* int(cleaned) for a non-empty sequence of digits
IntOfDigits(ds) ==
    IF ds = <<>> THEN 0
    ELSE 10 * IntOfDigits(SubSeq(ds, 1, Len(ds) - 1)) + DigitVal(ds[Len(ds)])

\* the positions of the separator sep in the text s
SepPositions(s, sep) == {i \in 1..Len(s) : s[i] = sep}

\* the three fields of s around its two separators, <<>> if s has not two
Fields3(s, sep) ==
    LET P == SepPositions(s, sep)
    IN IF Cardinality(P) # 2 THEN <<>>
       ELSE LET i == CHOOSE x \in P : \A y \in P : x <= y
                j == CHOOSE x \in P : \A y \in P : y <= x
            IN <<SubSeq(s, 1, i - 1), SubSeq(s, i + 1, j - 1), SubSeq(s, j + 1, Len(s))>>

AllDigits(f) == f # <<>> /\ \A i \in 1..Len(f) : f[i] \in Digits

\* the directives of strptime: %Y is four digits, %m one or two digits of
\* 1..12, %d one or two digits of 1..31 or a space and a digit of 1..9
MatchY(f) == Len(f) = 4 /\ AllDigits(f)

MatchM(f) == Len(f) \in {1, 2} /\ AllDigits(f) /\ IntOfDigits(f) \in 1..12

MatchD(f) ==
    \/ Len(f) \in {1, 2} /\ AllDigits(f) /\ IntOfDigits(f) \in 1..31
    \/ Len(f) = 2 /\ f[1] = " " /\ f[2] \in Digits \ {"0"}

DayOf(f) == IF f[1] = " " THEN DigitVal(f[2]) ELSE IntOfDigits(f)

\* datetime.date(y, m, d) is accepted
DateExists(y, m, d) == y >= 1 /\ m \in 1..12 /\ d >= 1 /\ d <= DaysInMonth(y, m)

\* datetime.datetime.strptime(s, fmt).date() for fmt year-first ("%Y-%m-%d")
\* or day-first ("%d/%m/%Y", "%d-%m-%Y") with separator sep; NoneV on ValueError
strptime_date(s, year_first, sep) ==
    LET f == Fields3(s, sep)
    IN IF f = <<>> THEN NoneV
       ELSE LET fy == IF year_first THEN f[1] ELSE f[3]
                fd == IF year_first THEN f[3] ELSE f[1]
            IN IF MatchY(fy) /\ MatchM(f[2]) /\ MatchD(fd)
                  /\ DateExists(IntOfDigits(fy), IntOfDigits(f[2]), DayOf(fd))
               THEN MkDate(IntOfDigits(fy), IntOfDigits(f[2]), DayOf(fd))
               ELSE NoneV

\* _ensure_date(obj): isinstance(obj, datetime.date) holds for a datetime too,
\* which line 38 returns as it is
ensure_date(obj) ==
    IF obj.t = "None" THEN NoneV
    ELSE IF obj.t \in {"date", "datetime"} THEN obj
    ELSE IF obj.t = "str"
    THEN LET a == strptime_date(obj.s, TRUE, "-")
             b == strptime_date(obj.s, FALSE, "/")
             c == strptime_date(obj.s, FALSE, "-")
         IN IF a # NoneV THEN a ELSE IF b # NoneV THEN b ELSE c
    ELSE NoneV

\* parse_fcfa(s): <<value, ok>>
parse_fcfa(s) ==
    LET cleaned == OnlyDigits(s)
    IN IF cleaned = <<>> THEN <<0, FALSE>>
       ELSE LET val == IntOfDigits(cleaned)
            IN IF val < 0 THEN <<0, FALSE>> ELSE <<val, TRUE>>

\* str.strip() on a text
RECURSIVE LStrip(_)
LStrip(s) == IF s # <<>> /\ s[1] = " " THEN LStrip(Tail(s)) ELSE s

RECURSIVE RStrip(_)
RStrip(s) == IF s # <<>> /\ s[Len(s)] = " " THEN RStrip(SubSeq(s, 1, Len(s) - 1)) ELSE s

Strip(s) == RStrip(LStrip(s))

is_filled(val) == Strip(val) # <<>>

calc_endettement_sentinel(revenu_mensuel, charges_mensuelles, montant_demande, duree_mois) ==
    IF duree_mois <= 0 \/ revenu_mensuel <= 0 THEN <<FZero, FloatOfInt(1)>>
    ELSE LET mensualite == FDivInt(FloatOfInt(montant_demande), duree_mois)
             taux == FDivInt(FAdd(FloatOfInt(charges_mensuelles), mensualite), revenu_mensuel)
         IN <<mensualite, taux>>

\* calc_endettement_simplifie: <<mensualite, taux>>
calc_endettement_simplifie(revenu_mensuel, charges_mensuelles, montant_demande, duree_mois) ==
    IF duree_mois <= 0 \/ revenu_mensuel <= 0 THEN <<FZero, FZero>>
    ELSE LET mensualite == FDivInt(FloatOfInt(montant_demande), duree_mois)
             taux == FDivInt(FAdd(FloatOfInt(charges_mensuelles), mensualite), revenu_mensuel)
         IN <<mensualite, taux>>

(***************************************************************************)
(* The alert messages (accents and typographic apostrophes left out).      *)
(***************************************************************************)
MSG_ENDETTEMENT == "Alerte (rouge) : Endettement estime superieur a 33%"
MSG_CDD == "Alerte (rouge) : CDD se termine avant la fin du credit demande"
MSG_ANC_COMPTE == "Alerte (rouge) : Anciennete du compte < 3 mois"
MSG_IMPAYES_ACTUELS == "Alerte (rouge) : Impayes actuels dans les 6 derniers mois"
MSG_LIMITER_25 == "Alerte (orange) : Limiter le taux d'endettement a 25% car impayes anciens"
MSG_PAS_CHANGEMENT == "Alerte (rouge) : Pas de changement chez l'employeur suite a des impayes anciens"
MSG_ANC_EMPLOYEUR == "Alerte (rouge) : Anciennete chez l'employeur < 3 mois"
MSG_EMP_INCONNU == "Alerte (orange) : Se renseigner sur l'etat financier de l'employeur pour avis definitif"
MSG_EMP_RISQUE == "Alerte (rouge) : Employeur connu avec un etat financier risque"

RedMessages == {MSG_ENDETTEMENT, MSG_CDD, MSG_ANC_COMPTE, MSG_IMPAYES_ACTUELS,
                MSG_PAS_CHANGEMENT, MSG_ANC_EMPLOYEUR, MSG_EMP_RISQUE}
OrangeMessages == {MSG_LIMITER_25, MSG_EMP_INCONNU}

\* The employer statuses offered at step 3: a string is kept as its first
\* character and the rest, which is what startswith reads.
STATUT_VERT == [first |-> "GREEN_CIRCLE", rest |-> " Connu - pas d'alerte"]
STATUT_ROUGE == [first |-> "RED_CIRCLE", rest |-> " Connu - Alerte rouge"]
STATUT_INCONNU == [first |-> "I", rest |-> "nconnu pour l'instant"]

\* rouges.append(msg) when cond
AppendIf(seq, cond, msg) == IF cond THEN Append(seq, msg) ELSE seq

\* a < b for two dates or for two datetimes
ObjLess(a, b) ==
    \/ DateLess(a, b)
    \/ a.t = "datetime" /\ a.y = b.y /\ a.m = b.m /\ a.d = b.d /\ a.h < b.h

\* eval_step1_alerts(data): <<rouges, oranges>>
eval_step1_alerts(data) ==
    LET taux == Get(data, "taux_endettement", FZero)
        r1 == AppendIf(<<>>, FGreater(taux, Third), MSG_ENDETTEMENT)
        cdd == "type_contrat" \in DOMAIN data /\ data["type_contrat"] = "CDD"
        date_fin_cdd == ensure_date(Get(data, "date_fin_cdd", NoneV))
        date_fin_credit == ensure_date(Get(data, "date_fin_credit", NoneV))
        \* the comparison of a date with a datetime raises: eval_step1_raises
        r2 == AppendIf(r1, /\ cdd
                           /\ date_fin_cdd # NoneV /\ date_fin_credit # NoneV
                           /\ date_fin_cdd.t = date_fin_credit.t
                           /\ ObjLess(date_fin_cdd, date_fin_credit), MSG_CDD)
    IN <<r2, <<>> >>

\* eval_step1_alerts(data) raises TypeError: line 112 compares a datetime.date
\* with a datetime.datetime
eval_step1_raises(data) ==
    LET cdd == "type_contrat" \in DOMAIN data /\ data["type_contrat"] = "CDD"
        date_fin_cdd == ensure_date(Get(data, "date_fin_cdd", NoneV))
        date_fin_credit == ensure_date(Get(data, "date_fin_credit", NoneV))
    IN /\ cdd
       /\ date_fin_cdd # NoneV /\ date_fin_credit # NoneV
       /\ date_fin_cdd.t # date_fin_credit.t

\* eval_step2_alerts with "if ch and am" at line 128
eval_step2_both_flags(data) ==
    LET anc == Get(data, "anciennete_compte", 999)
        r1 == AppendIf(<<>>, anc < 3, MSG_ANC_COMPTE)
        r2 == AppendIf(r1, Get(data, "impayes_actuels", FALSE), MSG_IMPAYES_ACTUELS)
        anciens == Get(data, "impayes_anciens", FALSE)
        ch == Get(data, "changement_employeur", FALSE)
        am == Get(data, "amelioration_employeur", FALSE)
        taux == Get(data, "taux_endettement", FZero)
        o1 == AppendIf(<<>>, anciens /\ (ch /\ am) /\ FGreater(taux, Quarter), MSG_LIMITER_25)
        r3 == AppendIf(r2, anciens /\ ~(ch /\ am), MSG_PAS_CHANGEMENT)
    IN <<r3, o1>>

\* eval_step2_alerts(data): <<rouges, oranges>>
eval_step2_alerts(data) ==
    LET anc == Get(data, "anciennete_compte", 999)
        r1 == AppendIf(<<>>, anc < 3, MSG_ANC_COMPTE)
        r2 == AppendIf(r1, Get(data, "impayes_actuels", FALSE), MSG_IMPAYES_ACTUELS)
        anciens == Get(data, "impayes_anciens", FALSE)
        ch == Get(data, "changement_employeur", FALSE)
        am == Get(data, "amelioration_employeur", FALSE)
        taux == Get(data, "taux_endettement", FZero)
        o1 == AppendIf(<<>>, anciens /\ (ch \/ am) /\ FGreater(taux, Quarter), MSG_LIMITER_25)
        r3 == AppendIf(r2, anciens /\ ~(ch \/ am), MSG_PAS_CHANGEMENT)
    IN <<r3, o1>>

\* eval_step3_alerts(data): <<rouges, oranges>>
eval_step3_alerts(data) ==
    LET anc_emp == Get(data, "anciennete_employeur", 999)
        r1 == AppendIf(<<>>, anc_emp < 3, MSG_ANC_EMPLOYEUR)
        known == "employeur_statut" \in DOMAIN data
        statut == data["employeur_statut"]
        o1 == AppendIf(<<>>, known /\ statut = STATUT_INCONNU, MSG_EMP_INCONNU)
        r2 == AppendIf(r1, known /\ statut # STATUT_INCONNU /\ statut.first = "RED_CIRCLE",
                       MSG_EMP_RISQUE)
    IN <<r2, o1>>

(***************************************************************************)
(* A text of several lines is the sequence of its lines; a line "* m" of   *)
(* the reasons is the pair of the bullet and the message.                  *)
(***************************************************************************)
Bullet == "BULLET"
TXT_REFUSE == "Credit refuse pour motif(s) suivant(s) :"
TXT_RISQUE == "Risque de refus de credit pour motif(s) suivant(s) :"
TXT_ACCEPTE == "Credit accepte"

\* [f"* {m}" for m in msgs]
Motifs(msgs) == [i \in 1..Len(msgs) |-> <<Bullet, msgs[i]>>]

final_decision_orange_first(rouges, oranges) ==
    IF oranges # <<>> THEN <<"orange", <<TXT_RISQUE>> \o Motifs(oranges)>>
    ELSE IF rouges # <<>> THEN <<"red", <<TXT_REFUSE>> \o Motifs(rouges)>>
    ELSE <<"green", <<TXT_ACCEPTE>> >>

\* final_decision_text(rouges, oranges): <<level, text>>
final_decision_text(rouges, oranges) ==
    IF rouges # <<>> THEN <<"red", <<TXT_REFUSE>> \o Motifs(rouges)>>
    ELSE IF oranges # <<>> THEN <<"orange", <<TXT_RISQUE>> \o Motifs(oranges)>>
    ELSE <<"green", <<TXT_ACCEPTE>> >>

(***************************************************************************)
(* The lines of step 1 that build the profile fields from the inputs of    *)
(* the page (app.py lines 226, 238-239 and 253-263).                       *)
(***************************************************************************)
Step1Fields(revenu, charges, montant, duree, type_contrat, date_fin_cdd, today, taux) ==
    LET date_debut_credit == PlusDays(today, 15)
        date_fin_credit == add_months(date_debut_credit, duree)
    IN [revenu_mensuel |-> revenu,
        charges_mensuelles |-> charges,
        montant_demande |-> montant,
        duree_credit_mois |-> duree,
        taux_endettement |-> taux,
        type_contrat |-> type_contrat,
        date_fin_cdd |-> date_fin_cdd,
        date_debut_credit |-> date_debut_credit,
        date_fin_credit |-> date_fin_credit]

(***************************************************************************)
(* Calls of the pure functions: call is the function and its arguments,    *)
(* ret its result once it has returned.                                    *)
(***************************************************************************)
NoCall == [fn |-> "none"]
NotDone == [done |-> FALSE]
Returned(v) == [done |-> TRUE, val |-> v]

SessionInit ==
    /\ step = 0
    /\ form_data = <<>>
    /\ alerts_red = <<>>
    /\ alerts_orange = <<>>
    /\ historique = <<>>
    /\ show_history = FALSE

\* ---- bounds of the inputs
MaxMsgs == 2          \* longest alert list handed to final_decision_text
MaxRevenu == 7
MaxCharges == 2
MaxMontant == 7
MaxDuree == 3

SeqsUpTo(S, n) == UNION {[1..k -> S] : k \in 0..n}

DecisionCalls ==
    {[fn |-> "final_decision_text", rouges |-> r, oranges |-> o] :
        r \in SeqsUpTo(RedMessages, MaxMsgs), o \in SeqsUpTo(OrangeMessages, MaxMsgs)}

CallFinalDecision ==
    /\ call.fn = "final_decision_text"
    /\ ~ret.done
    /\ ret' = Returned(final_decision_text(call.rouges, call.oranges))
    /\ UNCHANGED <<call, session_vars>>

InitDecision == SessionInit /\ call \in DecisionCalls /\ ret = NotDone

NextDecision == CallFinalDecision

SpecDecision == InitDecision /\ [][NextDecision]_vars

\* ---- calc_endettement_simplifie
CalcCalls ==
    {[fn |-> "calc_endettement_simplifie", revenu |-> r, charges |-> c, montant |-> m, duree |-> d] :
        r \in (-1..MaxRevenu) \cup {700000},
        c \in (-1..MaxCharges) \cup {250000},
        m \in (-1..MaxMontant) \cup {300000},
        d \in (-1..MaxDuree) \cup {12}}

CallCalc ==
    /\ call.fn = "calc_endettement_simplifie"
    /\ ~ret.done
    /\ ret' = Returned(calc_endettement_simplifie(call.revenu, call.charges,
                                                  call.montant, call.duree))
    /\ UNCHANGED <<call, session_vars>>

InitCalc == SessionInit /\ call \in CalcCalls /\ ret = NotDone

NextCalc == CallCalc

SpecCalc == InitCalc /\ [][NextCalc]_vars

\* ---- the rule groups on partial profiles
\* the profiles P, and P with field k set to each value of Vs
WithField(P, k, Vs) == P \cup {(k :> v) @@ p : p \in P, v \in Vs}

Ratios ==
    {FZero, FDivInt(FloatOfInt(1), 5), Quarter, FDivInt(FloatOfInt(3), 10), Third,
     FDivInt(FloatOfInt(2), 5), FloatOfInt(1), FloatOfInt(20), FloatOfInt(30), FloatOfInt(40)}

SomeDates ==
    {MkDate(2025, 1, 20), MkDate(2025, 2, 4), MkDate(2025, 2, 5), MkDate(2026, 2, 4)}

Step1Profiles ==
    WithField(WithField(WithField(WithField({<<>>},
        "taux_endettement", Ratios),
        "type_contrat", {"CDI", "CDD"}),
        "date_fin_cdd", {NoneV} \cup SomeDates),
        "date_fin_credit", {NoneV} \cup SomeDates)

Step2Profiles ==
    WithField(WithField(WithField(WithField(WithField(WithField({<<>>},
        "anciennete_compte", {0, 2, 3, 12}),
        "impayes_actuels", BOOLEAN),
        "impayes_anciens", BOOLEAN),
        "changement_employeur", BOOLEAN),
        "amelioration_employeur", BOOLEAN),
        "taux_endettement", Ratios)

Step3Profiles ==
    WithField(WithField({<<>>},
        "anciennete_employeur", {0, 2, 3, 24}),
        "employeur_statut", {STATUT_VERT, STATUT_ROUGE, STATUT_INCONNU})

Todays == {MkDate(2025, 1, 20), MkDate(2024, 12, 20), MkDate(2024, 2, 20)}

CddEnds ==
    {MkDate(2024, 1, 1), MkDate(2025, 1, 20), MkDate(2025, 2, 4), MkDate(2025, 3, 4),
     MkDate(2026, 6, 30)}

RuleCalls ==
    {[fn |-> "eval_step1_alerts", data |-> p] : p \in Step1Profiles}
    \cup {[fn |-> "eval_step2_alerts", data |-> p] : p \in Step2Profiles}
    \cup {[fn |-> "eval_step3_alerts", data |-> p] : p \in Step3Profiles}
    \cup {[fn |-> "step1_schedule", today |-> t, duree |-> d, date_fin_cdd |-> e] :
            t \in Todays, d \in (-1..MaxDuree) \cup {12}, e \in CddEnds}

CallEvalStep1 ==
    /\ call.fn = "eval_step1_alerts"
    /\ ~ret.done
    /\ ret' = Returned(eval_step1_alerts(call.data))
    /\ UNCHANGED <<call, session_vars>>

CallEvalStep2 ==
    /\ call.fn = "eval_step2_alerts"
    /\ ~ret.done
    /\ ret' = Returned(eval_step2_alerts(call.data))
    /\ UNCHANGED <<call, session_vars>>

CallEvalStep3 ==
    /\ call.fn = "eval_step3_alerts"
    /\ ~ret.done
    /\ ret' = Returned(eval_step3_alerts(call.data))
    /\ UNCHANGED <<call, session_vars>>

\* the fixed-term rule on the credit schedule that step 1 computes for a
\* requested duration (a fixed-term contract, no debt)
CallStep1Schedule ==
    /\ call.fn = "step1_schedule"
    /\ ~ret.done
    /\ ret' = Returned(eval_step1_alerts(
                 Step1Fields(1, 0, 0, call.duree, "CDD", call.date_fin_cdd, call.today,
                             calc_endettement_simplifie(1, 0, 0, call.duree)[2])))
    /\ UNCHANGED <<call, session_vars>>

InitRules == SessionInit /\ call \in RuleCalls /\ ret = NotDone

NextRules == CallEvalStep1 \/ CallEvalStep2 \/ CallEvalStep3 \/ CallStep1Schedule

SpecRules == InitRules /\ [][NextRules]_vars

\* ---- add_months on calendar dates
MaxMonths == 13

\* the dates of a common year, a leap year and a century year that is not leap
CalendarDates ==
    {MkDate(y, m, d) : y \in {2023, 2024, 2100}, m \in 1..12, d \in {1, 15, 28, 29, 30, 31}}

ValidDate(v) == v.m \in 1..12 /\ v.d >= 1 /\ v.d <= DaysInMonth(v.y, v.m)

DateCalls ==
    {[fn |-> "add_months", sourcedate |-> v, months |-> n] :
        v \in {x \in CalendarDates : ValidDate(x)}, n \in (-2)..MaxMonths}

CallAddMonths ==
    /\ call.fn = "add_months"
    /\ ~ret.done
    /\ ret' = Returned(add_months(call.sourcedate, call.months))
    /\ UNCHANGED <<call, session_vars>>

InitDates == SessionInit /\ call \in DateCalls /\ ret = NotDone

NextDates == CallAddMonths

SpecDates == InitDates /\ [][NextDates]_vars

\* ---- parse_fcfa on typed texts
MaxText == 4

\* a digit 0, another digit, the minus sign, a space and a separator
TextChars == {"0", "5", "-", " ", ","}

ParseCalls ==
    {[fn |-> "parse_fcfa", s |-> t] : t \in SeqsUpTo(TextChars, MaxText)}

CallParse ==
    /\ call.fn = "parse_fcfa"
    /\ ~ret.done
    /\ ret' = Returned(parse_fcfa(call.s))
    /\ UNCHANGED <<call, session_vars>>

InitParse == SessionInit /\ call \in ParseCalls /\ ret = NotDone

NextParse == CallParse

SpecParse == InitParse /\ [][NextParse]_vars

\* ---- the fixed-term rule on the objects a profile can hold as dates
DateTexts ==
    {<<"2", "0", "2", "5", "-", "0", "2", "-", "0", "4">>,
     <<"2", "0", "2", "5", "-", "2", "-", "5">>,
     <<"0", "4", "/", "0", "2", "/", "2", "0", "2", "5">>,
     <<"0", "5", "-", "0", "2", "-", "2", "0", "2", "5">>,
     <<"2", "0", "2", "5", "-", "0", "2", "-", "3", "0">>,
     <<"2", "0", "2", "5", "/", "0", "2", "/", "0", "4">>,
     <<>>,
     <<"x">>}

\* None, dates, datetimes of one day, texts and an object that is no date
DateObjects ==
    {NoneV, MkDate(2025, 2, 4), MkDate(2025, 2, 5),
     MkDateTime(2025, 2, 4, 0), MkDateTime(2025, 2, 4, 12), IntObj(7)}
    \cup {Str(t) : t \in DateTexts}

\* a raised exception
Raised(e) == [done |-> TRUE, raised |-> e]

CddCalls ==
    {[fn |-> "eval_step1_alerts", data |-> p] :
        p \in WithField(WithField(WithField({<<>>},
                 "type_contrat", {"CDI", "CDD"}),
                 "date_fin_cdd", DateObjects),
                 "date_fin_credit", DateObjects)}

CallCddRule ==
    /\ call.fn = "eval_step1_alerts"
    /\ ~ret.done
    /\ ret' = IF eval_step1_raises(call.data) THEN Raised("TypeError")
              ELSE Returned(eval_step1_alerts(call.data))
    /\ UNCHANGED <<call, session_vars>>

InitCdd == SessionInit /\ call \in CddCalls /\ ret = NotDone

NextCdd == CallCddRule

SpecCdd == InitCdd /\ [][NextCdd]_vars

(***************************************************************************)
(* The session of run_streamlit_app.  A run of the script handles one      *)
(* button; the widgets' values are the inputs of the action.               *)
(***************************************************************************)
MaxAlerts == 2        \* "Retour" is pressed while fewer messages are accumulated
MaxHist == 1          \* decisions recorded in one session

\* the texts typed at step 0: <<numero client, nom et prenom, charge de clientele>>
Step0Inputs ==
    {<< <<>>, <<>>, <<"D">> >>,
     << <<>>, <<" ">>, <<"D">> >>,
     << <<>>, <<"A", " ">>, <<>> >>,
     << <<>>, <<"A", " ">>, <<"D">> >>}

\* the day of the run
Today == MkDate(2025, 1, 20)

\* the widgets of step 1: the texts of the three FCFA fields, the duration
\* slider (1..120), the contract type and the date input shown for a CDD
Step1Inputs ==
    {[rev |-> <<>>, chg |-> <<"0">>, mnt |-> <<"2">>, duree |-> 1, contrat |-> "CDI",
      cdd_fin |-> NoneV],
     [rev |-> <<"0">>, chg |-> <<"0">>, mnt |-> <<"2">>, duree |-> 1, contrat |-> "CDI",
      cdd_fin |-> NoneV],
     [rev |-> <<"1", "2">>, chg |-> <<"x">>, mnt |-> <<"2">>, duree |-> 1, contrat |-> "CDI",
      cdd_fin |-> NoneV],
     [rev |-> <<"1", "2">>, chg |-> <<"0">>, mnt |-> <<"2">>, duree |-> 1, contrat |-> "CDI",
      cdd_fin |-> NoneV],
     [rev |-> <<"1", "2">>, chg |-> <<"0">>, mnt |-> <<"5">>, duree |-> 1, contrat |-> "CDI",
      cdd_fin |-> NoneV]}

\* the widgets of step 2: the account age slider (0..240), the two checkboxes
\* and the two radios shown when impayes_anciens is ticked
Step2Inputs ==
    {[anc |-> 12, actuels |-> FALSE, anciens |-> FALSE, ch |-> FALSE, am |-> FALSE],
     [anc |-> 12, actuels |-> FALSE, anciens |-> TRUE, ch |-> FALSE, am |-> FALSE],
     [anc |-> 12, actuels |-> FALSE, anciens |-> TRUE, ch |-> TRUE, am |-> FALSE]}

\* the widgets of step 3: the employer tenure slider (0..480) and the status
Step3Inputs ==
    {[anc |-> 24, statut |-> STATUT_VERT],
     [anc |-> 24, statut |-> STATUT_INCONNU]}

\* calc_endettement_simplifie on the values the page of step 1 can hold,
\* computed once
Step1Calc ==
    [x \in {<<parse_fcfa(i.rev)[1], parse_fcfa(i.chg)[1], parse_fcfa(i.mnt)[1], i.duree>> :
               i \in Step1Inputs} |->
        calc_endettement_simplifie(x[1], x[2], x[3], x[4])]

RECURSIVE DedupFrom(_, _, _)
DedupFrom(xs, i, acc) ==
    IF i > Len(xs) THEN acc
    ELSE IF xs[i] \in Range(acc) THEN DedupFrom(xs, i + 1, acc)
    ELSE DedupFrom(xs, i + 1, Append(acc, xs[i]))

\* the list as it is, repeated messages kept
KeepAll(xs) == xs

\* list(dict.fromkeys(xs))
Dedup(xs) == DedupFrom(xs, 1, <<>>)

\* acc = new: the accumulator overwritten
Replace(acc, new) == new

\* acc.extend(new)
Extend(acc, new) == acc \o new

\* "Retour" is pressed while the accumulators hold fewer than MaxAlerts messages
BackAllowed == Len(alerts_red) + Len(alerts_orange) < MaxAlerts

\* step 0, button "Suivant", if line 213 set the step to 2: the session would
\* reach the payment history without the financial rules being evaluated
Next0SkipStep1 ==
    /\ step = 0
    /\ \E inp \in Step0Inputs :
          LET num_client == inp[1]
              nom_prenom == inp[2]
              charge_clientele == inp[3]
          IN
          IF ~is_filled(nom_prenom) \/ ~is_filled(charge_clientele)
          THEN UNCHANGED <<step, form_data>>
          ELSE /\ form_data' = Update(form_data,
                                      [numero_client |-> Strip(num_client),
                                       nom_prenom_client |-> Strip(nom_prenom),
                                       charge_clientele |-> Strip(charge_clientele)])
               /\ step' = 2
    /\ UNCHANGED <<alerts_red, alerts_orange, historique, show_history, call, ret>>

\* step 0, button "Suivant"
Next0 ==
    /\ step = 0
    /\ \E inp \in Step0Inputs :
          LET num_client == inp[1]
              nom_prenom == inp[2]
              charge_clientele == inp[3]
          IN
          IF ~is_filled(nom_prenom) \/ ~is_filled(charge_clientele)
          THEN UNCHANGED <<step, form_data>>
          ELSE /\ form_data' = Update(form_data,
                                      [numero_client |-> Strip(num_client),
                                       nom_prenom_client |-> Strip(nom_prenom),
                                       charge_clientele |-> Strip(charge_clientele)])
               /\ step' = 1
    /\ UNCHANGED <<alerts_red, alerts_orange, historique, show_history, call, ret>>

\* step 1, button "Retour"
Back1 ==
    /\ step = 1
    /\ BackAllowed
    /\ step' = 0
    /\ UNCHANGED <<form_data, alerts_red, alerts_orange, historique, show_history, call, ret>>

\* valid, lines 247-249, without the comparison of revenu with 0
Step1ValidTexts(ok_rev, ok_chg, ok_mnt, revenu, duree_credit_mois, type_contrat, date_fin_cdd) ==
    /\ ok_rev /\ ok_chg /\ ok_mnt
    /\ duree_credit_mois >= 1
    /\ ~(type_contrat = "CDD" /\ date_fin_cdd = NoneV)

\* valid, lines 247-249
Step1Valid(ok_rev, ok_chg, ok_mnt, revenu, duree_credit_mois, type_contrat, date_fin_cdd) ==
    /\ ok_rev /\ ok_chg /\ ok_mnt
    /\ revenu > 0 /\ duree_credit_mois >= 1
    /\ ~(type_contrat = "CDD" /\ date_fin_cdd = NoneV)

\* step 1, button "Suivant", with the widgets holding inp
Next1With(inp) ==
    LET rev == parse_fcfa(inp.rev)
        chg == parse_fcfa(inp.chg)
        mnt == parse_fcfa(inp.mnt)
        duree_credit_mois == inp.duree
        type_contrat == inp.contrat
        revenu == rev[1]
        charges == chg[1]
        montant == mnt[1]
        calc == Step1Calc[<<revenu, charges, montant, duree_credit_mois>>]
        date_fin_cdd == IF type_contrat = "CDD" THEN inp.cdd_fin ELSE NoneV
        valid == Step1Valid(rev[2], chg[2], mnt[2], revenu, duree_credit_mois,
                            type_contrat, date_fin_cdd)
        data == Update(form_data,
                       Step1Fields(revenu, charges, montant, duree_credit_mois,
                                   type_contrat, date_fin_cdd, Today, calc[2]))
        alerts == eval_step1_alerts(data)
    IN /\ step = 1
       /\ IF ~valid
          THEN UNCHANGED <<step, form_data, alerts_red, alerts_orange>>
          ELSE /\ form_data' = data
               /\ alerts_red' = Extend(alerts_red, alerts[1])
               /\ alerts_orange' = Extend(alerts_orange, alerts[2])
               /\ step' = 2
       /\ UNCHANGED <<historique, show_history, call, ret>>

\* step 1, button "Suivant"
Next1 == \E inp \in Step1Inputs : Next1With(inp)

\* step 2, button "Retour"
Back2 ==
    /\ step = 2
    /\ BackAllowed
    /\ step' = 1
    /\ UNCHANGED <<form_data, alerts_red, alerts_orange, historique, show_history, call, ret>>

\* step 2, button "Suivant", if a red alert kept the session at step 2
Next2HaltOnRed(inp) ==
    LET impayes_anciens == inp.anciens
        \* the two radios are read only when impayes_anciens is ticked
        changement_employeur == IF impayes_anciens THEN inp.ch ELSE FALSE
        amelioration_employeur == IF impayes_anciens THEN inp.am ELSE FALSE
        data == Update(form_data,
                       [anciennete_compte |-> inp.anc,
                        impayes_actuels |-> inp.actuels,
                        impayes_anciens |-> impayes_anciens,
                        changement_employeur |-> changement_employeur,
                        amelioration_employeur |-> amelioration_employeur])
        alerts == eval_step2_alerts(data)
    IN /\ step = 2
       /\ form_data' = data
       /\ alerts_red' = Extend(alerts_red, alerts[1])
       /\ alerts_orange' = Extend(alerts_orange, alerts[2])
       /\ step' = IF alerts[1] # <<>> THEN 2 ELSE 3
       /\ UNCHANGED <<historique, show_history, call, ret>>

\* step 2, button "Suivant", with the widgets holding inp
Next2With(inp) ==
    LET impayes_anciens == inp.anciens
        \* the two radios are read only when impayes_anciens is ticked
        changement_employeur == IF impayes_anciens THEN inp.ch ELSE FALSE
        amelioration_employeur == IF impayes_anciens THEN inp.am ELSE FALSE
        data == Update(form_data,
                       [anciennete_compte |-> inp.anc,
                        impayes_actuels |-> inp.actuels,
                        impayes_anciens |-> impayes_anciens,
                        changement_employeur |-> changement_employeur,
                        amelioration_employeur |-> amelioration_employeur])
        alerts == eval_step2_alerts(data)
    IN /\ step = 2
       /\ form_data' = data
       /\ alerts_red' = Extend(alerts_red, alerts[1])
       /\ alerts_orange' = Extend(alerts_orange, alerts[2])
       /\ step' = 3
       /\ UNCHANGED <<historique, show_history, call, ret>>

\* step 2, button "Suivant"
Next2 == \E inp \in Step2Inputs : Next2With(inp)

\* step 3, button "Retour"
Back3 ==
    /\ step = 3
    /\ BackAllowed
    /\ step' = 2
    /\ UNCHANGED <<form_data, alerts_red, alerts_orange, historique, show_history, call, ret>>

\* the decision with a snapshot that starts from an empty dict at line 354
DecidedWithoutProfile(inp) ==
    LET data == Update(form_data,
                       [anciennete_employeur |-> inp.anc,
                        employeur_statut |-> inp.statut])
        alerts == eval_step3_alerts(data)
        acc_red == Extend(alerts_red, alerts[1])
        acc_orange == Extend(alerts_orange, alerts[2])
        reds == Dedup(acc_red)
        oranges == Dedup(acc_orange)
        decision == final_decision_text(reds, oranges)
    IN [data |-> data, alerts_red |-> acc_red, alerts_orange |-> acc_orange,
        snapshot |-> Update(<<>>, [alertes_rouges |-> reds,
                                   alertes_oranges |-> oranges,
                                   decision_finale |-> decision[2]])]

\* step 3, button "Decision finale", up to the snapshot: the profile, the
\* accumulators after the last rule group, the lists passed to the aggregator
\* and the entry of the history
Decided(inp) ==
    LET data == Update(form_data,
                       [anciennete_employeur |-> inp.anc,
                        employeur_statut |-> inp.statut])
        alerts == eval_step3_alerts(data)
        acc_red == Extend(alerts_red, alerts[1])
        acc_orange == Extend(alerts_orange, alerts[2])
        reds == Dedup(acc_red)
        oranges == Dedup(acc_orange)
        decision == final_decision_text(reds, oranges)
    IN [data |-> data, alerts_red |-> acc_red, alerts_orange |-> acc_orange,
        snapshot |-> Update(data, [alertes_rouges |-> reds,
                                   alertes_oranges |-> oranges,
                                   decision_finale |-> decision[2]])]

\* the decision without lines 361-362: the accumulators keep their content
DecideWithoutReset ==
    /\ step = 3
    /\ Len(historique) < MaxHist
    /\ \E inp \in Step3Inputs :
          /\ form_data' = Decided(inp).data
          /\ historique' = Append(historique, Decided(inp).snapshot)
          /\ alerts_red' = Decided(inp).alerts_red
          /\ alerts_orange' = Decided(inp).alerts_orange
    /\ step' = 0
    /\ UNCHANGED <<show_history, call, ret>>

\* step 3, button "Decision finale"
Decide ==
    /\ step = 3
    /\ Len(historique) < MaxHist
    /\ \E inp \in Step3Inputs :
          /\ form_data' = Decided(inp).data
          /\ historique' = Append(historique, Decided(inp).snapshot)
    /\ alerts_red' = <<>>
    /\ alerts_orange' = <<>>
    /\ step' = 0
    /\ UNCHANGED <<show_history, call, ret>>

\* the button "Voir l'historique des simulations" at the bottom of every step
ShowHistory ==
    /\ show_history' = TRUE
    /\ UNCHANGED <<step, form_data, alerts_red, alerts_orange, historique, call, ret>>

\* the button "Masquer l'historique", shown with the history
HideHistory ==
    /\ show_history /\ historique # <<>>
    /\ show_history' = FALSE
    /\ UNCHANGED <<step, form_data, alerts_red, alerts_orange, historique, call, ret>>

(***************************************************************************)
(* Claims about the pure functions.                                        *)
(***************************************************************************)
\* the messages that the lines after the first line of a decision text list
Listed(text) == [i \in 1..(Len(text) - 1) |-> text[i + 1][2]]

AllBulleted(text) == \A i \in 2..Len(text) : text[i][1] = Bullet

\* C1: final_decision_text returns "red" whenever rouges is non-empty, whatever
\* oranges holds, "orange" when rouges is empty and oranges is not, and "green"
\* only when both are empty; the refusal text lists exactly the red messages in
\* list order and no orange message, the risk text exactly the orange messages.
C1_AggregationPrecedence ==
    (call.fn = "final_decision_text" /\ ret.done) =>
        LET level == ret.val[1]
            text == ret.val[2]
            r == call.rouges
            o == call.oranges
        IN /\ r # <<>> =>
                /\ level = "red"
                /\ text[1] = TXT_REFUSE
                /\ AllBulleted(text)
                /\ Listed(text) = r
                /\ Range(Listed(text)) \cap Range(o) = {}
           /\ (r = <<>> /\ o # <<>>) =>
                /\ level = "orange"
                /\ text[1] = TXT_RISQUE
                /\ AllBulleted(text)
                /\ Listed(text) = o
           /\ (level = "green") <=> (r = <<>> /\ o = <<>>)
           /\ level = "green" => text = <<TXT_ACCEPTE>>

C1_Witness ==
    /\ call.fn = "final_decision_text" /\ ret.done
    /\ Len(call.rouges) = 2 /\ call.rouges[1] # call.rouges[2]
    /\ call.oranges # <<>>
    /\ ret.val[1] = "red"

\* the ratio a rule would read if ratios above 1 were percentages
Normalized(r) == IF FGreater(r, FloatOfInt(1)) THEN FDivInt(r, 100) ELSE r

\* C5: the 1/3 rule of eval_step1_alerts and the 0.25 rule of eval_step2_alerts
\* compare the normalized ratio: r/100 when r > 1, r unchanged when r <= 1.
C5_NormalizedRatio ==
    (ret.done /\ call.fn \in {"eval_step1_alerts", "eval_step2_alerts"}
              /\ "taux_endettement" \in DOMAIN call.data) =>
        LET r == call.data["taux_endettement"]
            d == call.data
        IN /\ call.fn = "eval_step1_alerts" =>
                (MSG_ENDETTEMENT \in Range(ret.val[1]) <=> FGreater(Normalized(r), Third))
           /\ (/\ call.fn = "eval_step2_alerts"
               /\ Get(d, "impayes_anciens", FALSE)
               /\ (Get(d, "changement_employeur", FALSE) \/ Get(d, "amelioration_employeur", FALSE))) =>
                (MSG_LIMITER_25 \in Range(ret.val[2]) <=> FGreater(Normalized(r), Quarter))

\* the rules other than the debt-ratio rule: the group, the fields a rule
\* reads, its message and the list (1 rouges, 2 oranges) that receives it
OtherRules ==
    {[fn |-> "eval_step1_alerts", reads |-> {"type_contrat", "date_fin_cdd", "date_fin_credit"},
      msg |-> MSG_CDD, list |-> 1],
     [fn |-> "eval_step2_alerts", reads |-> {"anciennete_compte"}, msg |-> MSG_ANC_COMPTE, list |-> 1],
     [fn |-> "eval_step2_alerts", reads |-> {"impayes_actuels"}, msg |-> MSG_IMPAYES_ACTUELS, list |-> 1],
     [fn |-> "eval_step2_alerts",
      reads |-> {"impayes_anciens", "changement_employeur", "amelioration_employeur"},
      msg |-> MSG_PAS_CHANGEMENT, list |-> 1],
     [fn |-> "eval_step2_alerts",
      reads |-> {"impayes_anciens", "changement_employeur", "amelioration_employeur",
                 "taux_endettement"},
      msg |-> MSG_LIMITER_25, list |-> 2],
     [fn |-> "eval_step3_alerts", reads |-> {"anciennete_employeur"}, msg |-> MSG_ANC_EMPLOYEUR, list |-> 1],
     [fn |-> "eval_step3_alerts", reads |-> {"employeur_statut"}, msg |-> MSG_EMP_RISQUE, list |-> 1],
     [fn |-> "eval_step3_alerts", reads |-> {"employeur_statut"}, msg |-> MSG_EMP_INCONNU, list |-> 2]}

\* C6: on a partial profile, a rule other than the debt-ratio rule does not emit
\* its alert while a field it reads is absent; each group returns two empty
\* lists on the empty profile.
C6_AbsentFieldNeverTriggers ==
    (ret.done /\ call.fn \in {"eval_step1_alerts", "eval_step2_alerts", "eval_step3_alerts"}) =>
        /\ DOMAIN call.data = {} => ret.val = << <<>>, <<>> >>
        /\ \A rule \in OtherRules :
              (rule.fn = call.fn /\ ~(rule.reads \subseteq DOMAIN call.data)) =>
                  rule.msg \notin Range(ret.val[rule.list])

\* C7: for a requested duration d <= 0, the credit end date
\* add_months(evaluation date + 15 days, d) never makes the fixed-term rule fire.
C7_NonPositiveDurationUnbounded ==
    (ret.done /\ call.fn = "step1_schedule" /\ call.duree <= 0) =>
        MSG_CDD \notin Range(ret.val[1])

\* the alerts of eval_step1_alerts on a profile that holds only the ratio
Step1OnRatio(taux) == eval_step1_alerts([taux_endettement |-> taux])

\* C8: for income > 0, duration > 0, charges >= 0, amount >= 0 the red debt-ratio
\* alert is emitted on the returned ratio exactly when
\* 3 * (charges * duration + amount) > income * duration; the scenario
\* 700000 / 250000 / 300000 / 12 gives the installment 25000 and a refusal.
C8_ThresholdExact ==
    (/\ ret.done /\ call.fn = "calc_endettement_simplifie"
     /\ call.revenu > 0 /\ call.duree > 0 /\ call.charges >= 0 /\ call.montant >= 0) =>
        LET alerts == Step1OnRatio(ret.val[2])
        IN /\ MSG_ENDETTEMENT \in Range(alerts[1])
                <=> 3 * (call.charges * call.duree + call.montant) > call.revenu * call.duree
           /\ (/\ call.revenu = 700000 /\ call.charges = 250000
               /\ call.montant = 300000 /\ call.duree = 12) =>
                /\ ret.val[1] = FloatOfInt(25000)
                /\ final_decision_text(alerts[1], alerts[2])[1] = "red"

\* C9: with duration <= 0 or income <= 0, calc_endettement_simplifie returns
\* (0, 0), and a profile carrying that ratio triggers neither the 1/3 red rule
\* nor the 0.25 orange rule.
C9_SentinelNeverTriggers ==
    (/\ ret.done /\ call.fn = "calc_endettement_simplifie"
     /\ (call.duree <= 0 \/ call.revenu <= 0)) =>
        /\ ret.val = <<FZero, FZero>>
        /\ MSG_ENDETTEMENT \notin Range(Step1OnRatio(ret.val[2])[1])
        /\ MSG_LIMITER_25 \notin
              Range(eval_step2_alerts([taux_endettement |-> ret.val[2],
                                       impayes_anciens |-> TRUE,
                                       changement_employeur |-> TRUE,
                                       amelioration_employeur |-> FALSE])[2])

C9_Witness ==
    /\ ret.done /\ call.fn = "calc_endettement_simplifie"
    /\ call.duree <= 0 /\ call.revenu > 0 /\ call.montant > call.revenu
    /\ ret.val[2] = FZero

Max(a, b) == IF a > b THEN a ELSE b

\* C10: for income > 0 and duration > 0, the result for (income, charges,
\* amount, duration) equals the result for (income, max(charges, 0),
\* max(amount, 0), duration), and neither returned value is negative.
C10_NegativeClamped ==
    (/\ ret.done /\ call.fn = "calc_endettement_simplifie"
     /\ call.revenu > 0 /\ call.duree > 0) =>
        /\ ret.val = calc_endettement_simplifie(call.revenu, Max(call.charges, 0),
                                                Max(call.montant, 0), call.duree)
        /\ ret.val[1].sgn = 0
        /\ ret.val[2].sgn = 0

\* C11: on a profile with impayes_anciens true and both employer flags false,
\* eval_step2_alerts emits the red "no employer change" alert and the decision
\* over any accumulator that receives it is refused, whatever the other fields;
\* with at least one flag true the rule emits no red alert, and the orange
\* "limit to 25%" alert exactly when the stored debt ratio is above 0.25.
C11_PastDelinquencyRule ==
    (/\ ret.done /\ call.fn = "eval_step2_alerts"
     /\ {"impayes_anciens", "changement_employeur", "amelioration_employeur"}
            \subseteq DOMAIN call.data
     /\ call.data["impayes_anciens"]) =>
        LET d == call.data
            flag == d["changement_employeur"] \/ d["amelioration_employeur"]
        IN /\ ~flag =>
                /\ MSG_PAS_CHANGEMENT \in Range(ret.val[1])
                /\ MSG_LIMITER_25 \notin Range(ret.val[2])
                /\ \A r \in SeqsUpTo(RedMessages, 1), o \in SeqsUpTo(OrangeMessages, 1) :
                      LET decision == final_decision_text(r \o ret.val[1], o \o ret.val[2])
                      IN decision[1] = "red" /\ decision[2][1] = TXT_REFUSE
           /\ flag =>
                /\ MSG_PAS_CHANGEMENT \notin Range(ret.val[1])
                /\ "taux_endettement" \in DOMAIN d =>
                      (MSG_LIMITER_25 \in Range(ret.val[2])
                          <=> FGreater(d["taux_endettement"], Quarter))

\* one flag true, a ratio above 0.25 and a recent account: the orange alert is
\* emitted beside another rule's red alert
C11_Witness ==
    /\ ret.done /\ call.fn = "eval_step2_alerts"
    /\ DOMAIN call.data = {"anciennete_compte", "impayes_anciens", "changement_employeur",
                           "amelioration_employeur", "taux_endettement"}
    /\ call.data["impayes_anciens"]
    /\ call.data["changement_employeur"] /\ ~call.data["amelioration_employeur"]
    /\ ret.val = << <<MSG_ANC_COMPTE>>, <<MSG_LIMITER_25>> >>

\* the number of the month of a date, counted from year 0
MonthIndex(v) == v.y * 12 + (v.m - 1)

\* C12: add_months returns the date unchanged for months <= 0 (and so does a
\* second application); for months > 0 the result lies exactly months calendar
\* months later, its day is min(original day, days of the resulting month) and
\* it is a valid date; one month after 31 January is 28 February in a common
\* year and 29 February in a leap year.
C12_AddMonths ==
    (ret.done /\ call.fn = "add_months") =>
        LET src == call.sourcedate
            n == call.months
            res == ret.val
        IN /\ n <= 0 => (res = src /\ add_months(res, n) = res)
           /\ n > 0 =>
                /\ MonthIndex(res) = MonthIndex(src) + n
                /\ res.d = Min(src.d, DaysInMonth(res.y, res.m))
                /\ ValidDate(res)
           /\ (src.m = 1 /\ src.d = 31 /\ n = 1) =>
                res = MkDate(src.y, 2, IF IsLeap(src.y) THEN 29 ELSE 28)
           /\ (src = MkDate(2023, 1, 31) /\ n = 1) => res = MkDate(2023, 2, 28)
           /\ (src = MkDate(2024, 1, 31) /\ n = 1) => res = MkDate(2024, 2, 29)

\* thirteen months after 31 January 2023: a year rollover and a clamped day
C12_Witness ==
    /\ ret.done /\ call.fn = "add_months"
    /\ call.sourcedate = MkDate(2023, 1, 31) /\ call.months = 13
    /\ ret.val = MkDate(2024, 2, 29)

\* the text holds no digit
NoDigit(t) == \A i \in 1..Len(t) : t[i] \notin Digits

\* the text denotes a negative value: a minus sign, then digits that are not all 0
DenotesNegative(t) ==
    LET u == Strip(t)
    IN /\ u # <<>> /\ u[1] = "-"
       /\ \E i \in 2..Len(u) : u[i] \in Digits \ {"0"}
       /\ \A i \in 2..Len(u) : u[i] # "-"

\* C15: parse_fcfa reports a text without a digit invalid, reports a text that
\* denotes a negative value (such as "-500") invalid, and reports every other
\* text valid with the integer formed by its digits in order.
C15_ParseFcfa ==
    (ret.done /\ call.fn = "parse_fcfa") =>
        LET t == call.s
            val == ret.val[1]
            ok == ret.val[2]
        IN /\ NoDigit(t) => ~ok
           /\ DenotesNegative(t) => ~ok
           /\ (~NoDigit(t) /\ ~DenotesNegative(t)) =>
                 (ok /\ val >= 0 /\ val = IntOfDigits(OnlyDigits(t)))

\* the date an object resolves to, NoneV when unknown: a date is itself, a
\* datetime its day, a text its parsed date; None, any other object and an
\* unparseable text are unknown
Resolved(obj) ==
    IF obj.t = "date" THEN obj
    ELSE IF obj.t = "datetime" THEN MkDate(obj.y, obj.m, obj.d)
    ELSE IF obj.t = "str" THEN ensure_date(obj)
    ELSE NoneV

\* C16: the fixed-term rule of eval_step1_alerts raises no error and fires
\* exactly when type_contrat is "CDD", date_fin_cdd and date_fin_credit both
\* resolve to a date and the first is strictly earlier; an absent or
\* unparseable date, equal dates and a contract other than CDD do not fire it.
C16_FixedTermRuleExact ==
    (ret.done /\ call.fn = "eval_step1_alerts") =>
        LET d == call.data
            fin_cdd == Resolved(Get(d, "date_fin_cdd", NoneV))
            fin_credit == Resolved(Get(d, "date_fin_credit", NoneV))
        IN /\ "raised" \notin DOMAIN ret
           /\ MSG_CDD \in Range(ret.val[1]) <=>
                 /\ "type_contrat" \in DOMAIN d /\ d["type_contrat"] = "CDD"
                 /\ fin_cdd # NoneV /\ fin_credit # NoneV
                 /\ DateLess(fin_cdd, fin_credit)

(***************************************************************************)
(* Claims about the session.                                               *)
(***************************************************************************)
\* a step of the session that records a decision
DecisionStep == Len(historique') = Len(historique) + 1

NoDuplicate(xs) == \A i, j \in 1..Len(xs) : xs[i] = xs[j] => i = j

FirstIndex(xs, m) == CHOOSE i \in 1..Len(xs) : xs[i] = m /\ \A k \in 1..(i - 1) : xs[k] # m

\* out holds the messages of acc, each once, ordered by first occurrence in acc
FirstOccurrences(acc, out) ==
    /\ NoDuplicate(out)
    /\ Range(out) = Range(acc)
    /\ \A i, j \in 1..Len(out) : i < j => FirstIndex(acc, out[i]) < FirstIndex(acc, out[j])

\* C2: whatever the sequence of Next, Back, re-submissions and Decide, the red
\* list and the orange list recorded with a decision, which are the lists the
\* decision text is built from, hold no message twice and hold the messages of
\* the accumulator in the order in which each was first added.
C2_DedupFirstOccurrence ==
    [][DecisionStep =>
          LET rec == historique'[Len(historique')]
              r3 == eval_step3_alerts(form_data')
          IN /\ FirstOccurrences(alerts_red \o r3[1], rec.alertes_rouges)
             /\ FirstOccurrences(alerts_orange \o r3[2], rec.alertes_oranges)
             /\ rec.decision_finale =
                   final_decision_text(rec.alertes_rouges, rec.alertes_oranges)[2]]_vars

\* step 3 after a re-submission: the accumulator holds a message twice, then
\* another message, and the decision can be taken
C2_Witness ==
    /\ step = 3 /\ Len(historique) < MaxHist
    /\ Len(alerts_red) = 3
    /\ alerts_red[1] = alerts_red[2]
    /\ alerts_red[3] # alerts_red[1]

IsPrefix(s, t) == Len(s) <= Len(t) /\ SubSeq(t, 1, Len(s)) = s

\* C3: every step of the session other than the final decision (Next or Back
\* at any step, a validation failure, showing or hiding the history) leaves the
\* previous alerts_red and alerts_orange as prefixes of the new ones.
C3_AccumulationMonotonic ==
    [][~DecisionStep =>
          /\ IsPrefix(alerts_red, alerts_red')
          /\ IsPrefix(alerts_orange, alerts_orange')]_vars

\* step 3 of the first application, reached through a Back and a
\* re-submission, with what both accumulators received on the way
C3_Witness ==
    /\ step = 3 /\ historique = <<>>
    /\ Len(alerts_red) = 2
    /\ alerts_orange # <<>>

\* the keys of form_data that the steps up to k have written
FieldsUpTo(k) ==
    {"numero_client", "nom_prenom_client", "charge_clientele"}
    \cup (IF k >= 1
          THEN {"revenu_mensuel", "charges_mensuelles", "montant_demande",
                "duree_credit_mois", "taux_endettement", "type_contrat",
                "date_fin_cdd", "date_debut_credit", "date_fin_credit"}
          ELSE {})
    \cup (IF k >= 2
          THEN {"anciennete_compte", "impayes_actuels", "impayes_anciens",
                "changement_employeur", "amelioration_employeur"}
          ELSE {})
    \cup (IF k >= 3 THEN {"anciennete_employeur", "employeur_statut"} ELSE {})

\* the profile that the application in progress has entered up to step k
OwnProfile(data, k) == [f \in DOMAIN data \cap FieldsUpTo(k) |-> data[f]]

\* the alerts of the rule group of step k on the application's own profile
OwnAlerts(data, k) ==
    IF k = 1 THEN eval_step1_alerts(OwnProfile(data, 1))
    ELSE IF k = 2 THEN eval_step2_alerts(OwnProfile(data, 2))
    ELSE eval_step3_alerts(OwnProfile(data, 3))

Step1Rejected(inp) ==
    \/ ~parse_fcfa(inp.rev)[2] \/ ~parse_fcfa(inp.chg)[2] \/ ~parse_fcfa(inp.mnt)[2]
    \/ parse_fcfa(inp.rev)[1] = 0

\* C13: at step 1, Next pressed while one of the three amount inputs is invalid
\* or the income is 0 leaves step at 1 and form_data, both accumulators and the
\* history unchanged (no step from step 1 that changes one of them is such a
\* Next); the step goes from 1 to 2 only by a Next whose inputs are all valid.
C13_Step1ValidationBlocks ==
    [][/\ (step = 1 /\ ~UNCHANGED <<step, form_data, alerts_red, alerts_orange, historique>>) =>
             \A inp \in Step1Inputs : ~(Step1Rejected(inp) /\ Next1With(inp))
       /\ (step = 1 /\ step' = 2) =>
             \E inp \in Step1Inputs : ~Step1Rejected(inp) /\ Next1With(inp)]_vars

\* step 1, reached by Back with a profile and an alert already in the session,
\* where Next can be pressed on an invalid input
C13_Witness ==
    /\ step = 1
    /\ "revenu_mensuel" \in DOMAIN form_data
    /\ alerts_red # <<>>
    /\ \E inp \in Step1Inputs : Step1Rejected(inp)

\* C14: alerts do not halt progression: a step of the session that is the Next
\* of step 1 on valid inputs ends at step 2, and a step that is the Next of
\* step 2 ends at step 3, whatever alerts the rule group emitted and whatever
\* the accumulators hold.
C14_AlertsNeverHalt ==
    [][/\ (step = 1 /\ step' # 2) =>
             \A inp \in Step1Inputs : ~(~Step1Rejected(inp) /\ Next1With(inp))
       /\ (step = 2 /\ step' # 3) =>
             \A inp \in Step2Inputs : ~Next2With(inp)]_vars

\* a decision reached and refused with a red alert of step 1 and a red alert
\* of step 2 accumulated
C14_Witness ==
    /\ Len(historique) = 1
    /\ MSG_ENDETTEMENT \in Range(historique[1].alertes_rouges)
    /\ MSG_PAS_CHANGEMENT \in Range(historique[1].alertes_rouges)

Reevaluated(rec) ==
    LET a1 == eval_step1_alerts(rec)
        a2 == eval_step2_alerts(rec)
        a3 == eval_step3_alerts(rec)
    IN <<Dedup(a1[1] \o a2[1] \o a3[1]), Dedup(a1[2] \o a2[2] \o a3[2])>>

\* the severity of a decision text: 2 refused, 1 risk, 0 accepted
Severity(text) ==
    IF text[1] = TXT_REFUSE THEN 2 ELSE IF text[1] = TXT_RISQUE THEN 1 ELSE 0

\* C18 as stated: every decision recorded in the history equals the decision
\* obtained by evaluating the three rule groups once on the snapshot profile
\* stored with it and aggregating the result.
C18_DecisionEqualsReevaluation ==
    \A i \in 1..Len(historique) :
        LET rec == historique[i]
            re == Reevaluated(rec)
        IN rec.decision_finale = final_decision_text(re[1], re[2])[2]

\* C18, amended: the lists recorded with a decision hold every alert that the
\* three rule groups emit on the snapshot profile (and may hold alerts of
\* earlier submissions of the same application), so the recorded decision is
\* at least as severe as the decision re-evaluated on the snapshot, and it is
\* that decision whenever the recorded lists hold no other alert.
C18_DecisionCoversReevaluation ==
    \A i \in 1..Len(historique) :
        LET rec == historique[i]
            re == Reevaluated(rec)
        IN /\ Range(re[1]) \subseteq Range(rec.alertes_rouges)
           /\ Range(re[2]) \subseteq Range(rec.alertes_oranges)
           /\ Severity(rec.decision_finale)
                 >= Severity(final_decision_text(re[1], re[2])[2])
           /\ (/\ Range(rec.alertes_rouges) = Range(re[1])
               /\ Range(rec.alertes_oranges) = Range(re[2])) =>
                 Severity(rec.decision_finale)
                    = Severity(final_decision_text(re[1], re[2])[2])

\* an application refused for an alert of a submission that was corrected after
\* a Back: its snapshot re-evaluates to an acceptance
C18_Witness ==
    /\ Len(historique) >= 1
    /\ Severity(historique[1].decision_finale) = 2
    /\ Reevaluated(historique[1]) = << <<>>, <<>> >>

\* C19: in every reachable state of the session with step = 0, alerts_red and
\* alerts_orange are empty, also when step 0 was reached by the Back buttons.
C19_Step0AccumulatorsEmpty ==
    step = 0 => (alerts_red = <<>> /\ alerts_orange = <<>>)

\* the session data other than the step counter
SessionData == <<form_data, alerts_red, alerts_orange, historique>>

\* the step evaluates rule group 1: it is the Next of step 1 on valid inputs,
\* which stores the profile and extends the accumulators by eval_step1_alerts
Group1Evaluated == \E inp \in Step1Inputs : ~Step1Rejected(inp) /\ Next1With(inp)

\* the step evaluates rule group 2: it is the Next of step 2
Group2Evaluated == \E inp \in Step2Inputs : Next2With(inp)

\* the step evaluates rule group 3: the entry it appends to the history holds
\* the accumulators extended by eval_step3_alerts on the profile it stores
Group3Evaluated ==
    \E inp \in Step3Inputs :
        LET data == Update(form_data, [anciennete_employeur |-> inp.anc,
                                       employeur_statut |-> inp.statut])
            alerts == eval_step3_alerts(data)
        IN /\ form_data' = data
           /\ historique' = Append(historique,
                  Update(data,
                         [alertes_rouges |-> Dedup(alerts_red \o alerts[1]),
                          alertes_oranges |-> Dedup(alerts_orange \o alerts[2]),
                          decision_finale |->
                              final_decision_text(Dedup(alerts_red \o alerts[1]),
                                                  Dedup(alerts_orange \o alerts[2]))[2]]))

Init == SessionInit /\ call = NoCall /\ ret = NotDone

Next ==
    \/ Next0 \/ Back1 \/ Next1 \/ Back2 \/ Next2 \/ Back3 \/ Decide
    \/ ShowHistory \/ HideHistory

Spec == Init /\ [][Next]_vars
====
